---- MODULE Spec2Model ----
(***************************************************************************)
(* A model of ghstack's EdenShell (src/ghstack/eden_shell.py): the shim    *)
(* that translates git command lines into calls of the backing tool (hg)   *)
(* and of the generic git runner of the base Shell class.                  *)
(*                                                                         *)
(* A string is a sequence of one-character strings, so that rfind, index,  *)
(* startswith and slicing are computed position by position as Python      *)
(* computes them.  An argument list is a sequence of such strings.         *)
(***************************************************************************)
EXTENDS Integers, Sequences, FiniteSets, TLC

(***************************************************************************)
(* Bounds of the model.                                                    *)
(***************************************************************************)
\* the largest number of mapping strings in a push request
MaxMappings == 2
\* the largest number of tokens after the head of a generic command
MaxTail == 2
\* the largest length of a pattern handed to match_args on its own
MaxPattern == 3
\* the largest length of a remote ref handed to merge-base
MaxRefLen == 3

(***************************************************************************)
(* String literals of the source.                                          *)
(***************************************************************************)
EDEN_CLI == "hg"
GIT_CLI == "git"

S_remote == <<"r","e","m","o","t","e">>
S_get_url == <<"g","e","t","-","u","r","l">>
S_fetch == <<"f","e","t","c","h">>
S_prune == <<"-","-","p","r","u","n","e">>
S_merge_base == <<"m","e","r","g","e","-","b","a","s","e">>
S_HEAD == <<"H","E","A","D">>
S_push == <<"p","u","s","h">>
S_force == <<"-","-","f","o","r","c","e">>
S_pull == <<"p","u","l","l">>
S_log == <<"l","o","g">>
S_config == <<"c","o","n","f","i","g">>
S_paths_default == <<"p","a","t","h","s",".","d","e","f","a","u","l","t">>
S_git_dir == <<"-","-","g","i","t","-","d","i","r">>
S_dash_r == <<"-","r">>
S_dash_T == <<"-","T">>
S_to == <<"-","-","t","o">>
S_node == <<"{","n","o","d","e","}">>
S_max_tip == <<"m","a","x","(",".",":",":",")">>
S_ancestor_open == <<"a","n","c","e","s","t","o","r","(",".",","," ">>
S_close == <<")">>
S_fetch_refspec ==
    <<"+","r","e","f","s","/","h","e","a","d","s","/","*",":",
      "r","e","f","s","/","r","e","m","o","t","e","s","/",
      "o","r","i","g","i","n","/","*">>
\* prefix = 'refs/heads/' of _push_branches
prefix == <<"r","e","f","s","/","h","e","a","d","s","/">>

(***************************************************************************)
(* Python's string and list primitives, as the source uses them.           *)
(* Indices are Python's (from 0); -1 is "not found".                       *)
(***************************************************************************)
RECURSIVE FindFrom(_, _, _)
\* the first index >= i (from 0) of character c in s, or -1
FindFrom(s, c, i) ==
    IF i >= Len(s) THEN -1
    ELSE IF s[i + 1] = c THEN i
    ELSE FindFrom(s, c, i + 1)

\* str.index(c), with -1 standing for the ValueError Python raises
str_index(s, c) == FindFrom(s, c, 0)

RECURSIVE RFindFrom(_, _, _)
\* the last index <= i (from 0) of character c in s, or -1
RFindFrom(s, c, i) ==
    IF i < 0 THEN -1
    ELSE IF s[i + 1] = c THEN i
    ELSE RFindFrom(s, c, i - 1)

\* str.rfind(c)
str_rfind(s, c) == RFindFrom(s, c, Len(s) - 1)

\* s[i:]
SliceFrom(s, i) == SubSeq(s, i + 1, Len(s))

\* s[:i]
SliceTo(s, i) == SubSeq(s, 1, i)

\* s.startswith(p)
startswith(s, p) == Len(s) >= Len(p) /\ SubSeq(s, 1, Len(p)) = p

\* x in args
Contains(args, x) == \E i \in 1..Len(args) : args[i] = x

(***************************************************************************)
(* match_args.  A pattern element is the wildcard object, a string, or     *)
(* an object of another type; the result is "True", "False" or             *)
(* "Exception" (the unknown-pattern-type error).                           *)
(***************************************************************************)
WILDCARD_ARG == [kind |-> "wildcard", val |-> <<>>]
Lit(s) == [kind |-> "str", val |-> s]
Other == [kind |-> "other", val |-> <<>>]

RECURSIVE MatchZip(_, _, _)
\* the loop over zip(pattern, args), from pair i on
MatchZip(pattern, args, i) ==
    IF i > Len(pattern) \/ i > Len(args) THEN "True"
    ELSE IF pattern[i] = WILDCARD_ARG THEN MatchZip(pattern, args, i + 1)
    ELSE IF pattern[i].kind = "str" THEN
        IF pattern[i].val # args[i] THEN "False"
        ELSE MatchZip(pattern, args, i + 1)
    ELSE "Exception"

\* variant: match_args without its length test (zip stops at the shorter list)
MatchArgsNoLengthCheck(pattern, args) == MatchZip(pattern, args, 1)

match_args(pattern, args) ==
    IF Len(pattern) > Len(args) THEN "False"
    ELSE MatchZip(pattern, args, 1)

(***************************************************************************)
(* Python values and the outcome of a call of git().                       *)
(***************************************************************************)
PyNone == [kind |-> "None", val |-> <<>>]
PyStr(s) == [kind |-> "str", val |-> s]

Pending == [status |-> "pending", val |-> PyNone, exc |-> "", about |-> <<>>]
Returned(v) == [status |-> "returned", val |-> v, exc |-> "", about |-> <<>>]
\* an exception of class e whose message quotes the argument list a
Raised(e, a) == [status |-> "raised", val |-> PyNone, exc |-> e, about |-> a]

(***************************************************************************)
(* The environment: what a subprocess can answer.  A run either succeeds   *)
(* with some output text or fails, and the failure is raised by the base   *)
(* class' sh()/git().  The outputs are commit identifiers and URLs, which  *)
(* are never the literal token HEAD.                                       *)
(***************************************************************************)
Outputs == {<<"x","1">>, <<"x","2">>}
RunResults == {[ok |-> TRUE, out |-> o] : o \in Outputs}
                 \cup {[ok |-> FALSE, out |-> <<>>]}
GitDirs == {<<"/","g">>, <<"/","r","/","g">>}
S_origin == <<"o","r","i","g","i","n">>
S_up == <<"u","p">>
RemoteNames == {S_origin, S_up}

\* one subprocess run, as recorded in the history of the current call
Run(tool, argv, r) == [tool |-> tool, argv |-> argv, ok |-> r.ok, out |-> r.out]

(***************************************************************************)
(* The argument lists git() is called with.                                *)
(***************************************************************************)
SeqsUpTo(S, n) == UNION {[1..k -> S] : k \in 0..n}

\* the remote refs handed to merge-base: every string over {m, /}
Refs == SeqsUpTo({"m", "/"}, MaxRefLen)

S_h1 == <<"h","1">>
S_h2 == <<"h","2">>
Mappings ==
    { S_h1 \o <<":">> \o prefix \o <<"b","1">>,
      S_h2 \o <<":">> \o <<"b","2">>,
      S_h1 \o <<":">> \o <<"x","/">> \o prefix \o <<"b","1">>,
      S_h2 \o <<":">> \o prefix \o <<"b",":","2">>,
      S_h2 \o <<":">> \o prefix,
      S_h1 }

TailTokens == {S_origin, S_up, S_HEAD, S_force, <<"m">>}
Heads == { <<>>, <<S_log>>, <<S_remote>>, <<S_remote, S_get_url>>, <<S_fetch>>,
           <<S_fetch, S_prune>>, <<S_merge_base>>, <<S_push>> }
GenericArgs == {h \o t : h \in Heads, t \in SeqsUpTo(TailTokens, MaxTail)}
MergeBaseArgs ==
    {<<S_merge_base, r, S_HEAD>> \o t : r \in Refs, t \in {<<>>, <<S_force>>}}
PushArgs ==
    {<<S_push, n>> \o f \o ms :
        n \in RemoteNames, f \in {<<>>, <<S_force>>},
        ms \in SeqsUpTo(Mappings, MaxMappings)}
InputArgs == GenericArgs \cup MergeBaseArgs \cup PushArgs

(***************************************************************************)
(* The state of an EdenShell and of the call of git() in progress.         *)
(***************************************************************************)
VARIABLES
    remote_name,   \* self.conf.remote_name
    git_dir,       \* self.git_dir
    pc,            \* where the call of git() stands
    caller_args,   \* _args, the tuple the caller passed
    args,          \* the local list args of git()
    is_force,      \* is_force of git()
    branch_args,   \* branch_args of _push_branches
    idx,           \* the position of the for loop of _push_branches (from 1)
    last_result,   \* last_result of _push_branches
    git_args,      \* git_args of git()
    calls,         \* the subprocess runs the current call has issued, in order
    ret,           \* the outcome of the current call
    last_forward,  \* what the preceding call forwarded, when the current call
                   \* repeats its arguments
    probe          \* a call of match_args on its own: pattern, args, result

vars == <<remote_name, git_dir, pc, caller_args, args, is_force, branch_args,
          idx, last_result, git_args, calls, ret, last_forward, probe>>

NoForward == [set |-> FALSE, argv |-> <<>>]
Forward(argv) == [set |-> TRUE, argv |-> argv]

\* the runs of one tool among the runs of a history
RunsOf(h, tool) == SelectSeq(h, LAMBDA c : c.tool = tool)

NoProbe == [pattern |-> <<>>, args |-> <<>>, result |-> "unset"]

\* the shell after __init__, with no call of git() under way
InitShell ==
    /\ remote_name \in RemoteNames
    /\ git_dir \in GitDirs
    /\ pc = "idle"
    /\ caller_args = <<>>
    /\ args = <<>>
    /\ is_force = FALSE
    /\ branch_args = <<>>
    /\ idx = 1
    /\ last_result = PyNone
    /\ git_args = <<>>
    /\ calls = <<>>
    /\ ret = Pending
    /\ last_forward = NoForward

Init ==
    /\ InitShell
    /\ probe = NoProbe

(***************************************************************************)
(* git(): the dispatch on the argument list (lines 34-60).                 *)
(***************************************************************************)
\* variant: the fetch pattern without the remote name
DispatchFetchAnyRemote(rn, a) ==
    IF match_args(<<Lit(S_remote), Lit(S_get_url), Lit(rn)>>, a) = "True"
        THEN "get_url"
    ELSE IF match_args(<<Lit(S_fetch), Lit(S_prune)>>, a) = "True"
        THEN "fetch"
    ELSE IF match_args(<<Lit(S_merge_base), WILDCARD_ARG, Lit(S_HEAD)>>, a) = "True"
        THEN "merge_base"
    ELSE IF match_args(<<Lit(S_push), Lit(rn)>>, a) = "True"
        THEN "push"
    ELSE "default"

\* the branch of the if/elif chain of git() that args takes
Dispatch(rn, a) ==
    IF match_args(<<Lit(S_remote), Lit(S_get_url), Lit(rn)>>, a) = "True"
        THEN "get_url"
    ELSE IF match_args(<<Lit(S_fetch), Lit(S_prune), Lit(rn)>>, a) = "True"
        THEN "fetch"
    ELSE IF match_args(<<Lit(S_merge_base), WILDCARD_ARG, Lit(S_HEAD)>>, a) = "True"
        THEN "merge_base"
    ELSE IF match_args(<<Lit(S_push), Lit(rn)>>, a) = "True"
        THEN "push"
    ELSE "default"

\* is_force = args[2] == '--force'
IsForce(a) == a[3] = S_force

\* variant: --force is left among the mappings
BranchArgsKeepForce(a) == SliceFrom(a, 2)

\* branch_args = args[3 if is_force else 2:]
BranchArgs(a) == SliceFrom(a, IF IsForce(a) THEN 3 ELSE 2)

\* variant: extra arguments of a fetch are let through
FetchShapeAtLeast3(a) == Len(a) >= 3

\* the fetch branch goes on when not (len(args) != 3)
FetchShapeOk(a) == Len(a) = 3

\* the push branch goes on when not (len(args) == 2)
PushShapeOk(a) == Len(a) # 2

\* variant: the failure of a subprocess is swallowed
RunFailsNever(r) == FALSE

\* a subprocess that fails makes sh() raise, and nothing here catches it
RunFails(r) == ~r.ok

\* the call ends: it returns v
Return(v) ==
    /\ pc' = "done"
    /\ ret' = Returned(v)

\* the call ends: it raises
Raise(e, a) ==
    /\ pc' = "done"
    /\ ret' = Raised(e, a)

\* what the finished call forwarded to the generic runner, if anything
Forwarded ==
    IF pc = "done" /\ RunsOf(calls, GIT_CLI) # <<>>
        THEN Forward(RunsOf(calls, GIT_CLI)[1].argv)
        ELSE NoForward

\* the body of git(*a) up to its first subprocess; lf is what the caller
\* remembers of the preceding call
Enter(a, lf) ==
    /\ caller_args' = a
    /\ args' = a
    /\ calls' = <<>>
    /\ last_forward' = lf
    /\ git_args' = <<>>
    /\ last_result' = PyNone
    /\ idx' = 1
    /\ UNCHANGED <<probe, remote_name, git_dir>>
    /\ LET branch == Dispatch(remote_name, a) IN
        CASE branch = "get_url" ->
                /\ pc' = "get_url"
                /\ ret' = Pending
                /\ is_force' = FALSE
                /\ branch_args' = <<>>
          [] branch = "fetch" ->
                /\ IF ~FetchShapeOk(a)
                     THEN Raise("Exception", a)
                     ELSE pc' = "fetch" /\ ret' = Pending
                /\ is_force' = FALSE
                /\ branch_args' = <<>>
          [] branch = "merge_base" ->
                /\ pc' = "merge_base"
                /\ ret' = Pending
                /\ is_force' = FALSE
                /\ branch_args' = <<>>
          [] branch = "push" ->
                IF ~PushShapeOk(a)
                  THEN /\ Raise("Exception", a)
                       /\ is_force' = FALSE
                       /\ branch_args' = <<>>
                ELSE /\ is_force' = IsForce(a)
                     /\ branch_args' = BranchArgs(a)
                     /\ IF BranchArgs(a) = <<>>
                          THEN Return(PyNone)
                          ELSE pc' = "push_pull" /\ ret' = Pending
          [] branch = "default" ->
                /\ pc' = "rewrite"
                /\ ret' = Pending
                /\ is_force' = FALSE
                /\ branch_args' = <<>>

\* the caller calls git(*a)
GitCall(a) ==
    /\ pc = "idle"
    /\ Enter(a, NoForward)

\* the caller calls git() once more with the arguments of the call that
\* has just ended
GitCallAgain ==
    /\ pc = "done"
    /\ Enter(caller_args, Forwarded)

\* the call is over and its locals are gone; the shell is as constructed
CallerResumes ==
    /\ pc = "done"
    /\ pc' = "idle"
    /\ caller_args' = <<>>
    /\ args' = <<>>
    /\ is_force' = FALSE
    /\ branch_args' = <<>>
    /\ idx' = 1
    /\ last_result' = PyNone
    /\ git_args' = <<>>
    /\ calls' = <<>>
    /\ ret' = Pending
    /\ last_forward' = NoForward
    /\ UNCHANGED <<probe, remote_name, git_dir>>

(***************************************************************************)
(* _get_origin and the two branches that use it (lines 36-44, 108-110).    *)
(***************************************************************************)
GetOriginArgs == <<S_config, S_paths_default>>

\* return self._get_origin()
GetUrl(r) ==
    /\ pc = "get_url"
    /\ calls' = Append(calls, Run(EDEN_CLI, GetOriginArgs, r))
    /\ IF RunFails(r) THEN Raise("CommandFailed", <<>>) ELSE Return(PyStr(r.out))
    /\ UNCHANGED <<probe, remote_name, git_dir, caller_args, args, is_force,
                   branch_args, idx, last_result, git_args, last_forward>>

\* variant: the refspec is not appended
FetchArgsUrlOnly(a, origin) == [a EXCEPT ![3] = origin]

\* args[2] = origin; args.append(refspec)
FetchArgs(a, origin) == Append([a EXCEPT ![3] = origin], S_fetch_refspec)

\* args[2] = self._get_origin(); args.append(...); on to _rewrite_args
FetchGetOrigin(r) ==
    /\ pc = "fetch"
    /\ calls' = Append(calls, Run(EDEN_CLI, GetOriginArgs, r))
    /\ IF ~RunFails(r)
         THEN /\ args' = FetchArgs(args, r.out)
              /\ pc' = "rewrite"
              /\ ret' = ret
         ELSE /\ Raise("CommandFailed", <<>>)
              /\ args' = args
    /\ UNCHANGED <<probe, remote_name, git_dir, caller_args, is_force, branch_args,
                   idx, last_result, git_args, last_forward>>

(***************************************************************************)
(* The merge-base branch (lines 45-52).                                    *)
(***************************************************************************)
\* variant: the cut is made at the last '/', not after it
BranchNameKeepSlash(remote) ==
    LET index == str_rfind(remote, "/") IN
    IF index # -1 THEN SliceFrom(remote, index) ELSE remote

\* remote = args[1], cut after its last '/'
BranchName(remote) ==
    LET index == str_rfind(remote, "/") IN
    IF index # -1 THEN SliceFrom(remote, index + 1) ELSE remote

\* ["log", "-T", "{node}", "-r", f"ancestor(., {remote})"]
MergeBaseArgv(remote) ==
    <<S_log, S_dash_T, S_node, S_dash_r, S_ancestor_open \o remote \o S_close>>

MergeBase(r) ==
    /\ pc = "merge_base"
    /\ calls' = Append(calls, Run(EDEN_CLI, MergeBaseArgv(BranchName(args[2])), r))
    /\ IF RunFails(r) THEN Raise("CommandFailed", <<>>) ELSE Return(PyStr(r.out))
    /\ UNCHANGED <<probe, remote_name, git_dir, caller_args, args, is_force,
                   branch_args, idx, last_result, git_args, last_forward>>

(***************************************************************************)
(* _push_branches (lines 67-92): one pull and one push per mapping.        *)
(***************************************************************************)
\* commit_hash = arg[:split_point]
CommitHash(arg) == SliceTo(arg, str_index(arg, ":"))

\* refspec = arg[(split_point+1):], without a leading 'refs/heads/'
Refspec(arg) ==
    LET refspec == SliceFrom(arg, str_index(arg, ":") + 1) IN
    IF startswith(refspec, prefix) THEN SliceFrom(refspec, Len(prefix))
    ELSE refspec

\* ["pull", "-r", commit_hash]
PullArgv(arg) == <<S_pull, S_dash_r, CommitHash(arg)>>

\* variant: --force only when the request had it
PushArgvForceIfAsked(arg, force) ==
    <<S_push, S_dash_r, CommitHash(arg), S_to, Refspec(arg)>>
        \o (IF force THEN <<S_force>> ELSE <<>>)

\* full_args = ["push", "-r", commit_hash, "--to", refspec] + ["--force"]
PushArgv(arg, force) ==
    <<S_push, S_dash_r, CommitHash(arg), S_to, Refspec(arg)>> \o <<S_force>>

\* variant: the result of the first push is kept
KeepFirstResult(previous, out) ==
    IF previous = PyNone THEN PyStr(out) ELSE previous

\* last_result = self._run_eden_command(full_args)
NextLastResult(previous, out) == PyStr(out)

\* the head of an iteration: the split of the mapping, then the pull
PushPull(r) ==
    /\ pc = "push_pull"
    /\ LET arg == branch_args[idx] IN
        IF str_index(arg, ":") = -1
          THEN /\ Raise("ValueError", <<>>)
               /\ calls' = calls
          ELSE /\ calls' = Append(calls, Run(EDEN_CLI, PullArgv(arg), r))
               /\ IF ~RunFails(r)
                    THEN pc' = "push_push" /\ ret' = ret
                    ELSE Raise("CommandFailed", <<>>)
    /\ UNCHANGED <<probe, remote_name, git_dir, caller_args, args, is_force,
                   branch_args, idx, last_result, git_args, last_forward>>

\* the rest of the iteration: the push, and the return after the last one
PushPush(r) ==
    /\ pc = "push_push"
    /\ calls' = Append(calls,
                       Run(EDEN_CLI, PushArgv(branch_args[idx], is_force), r))
    /\ IF ~RunFails(r)
         THEN /\ last_result' = NextLastResult(last_result, r.out)
              /\ IF idx = Len(branch_args)
                   THEN Return(NextLastResult(last_result, r.out)) /\ idx' = idx
                   ELSE pc' = "push_pull" /\ ret' = ret /\ idx' = idx + 1
         ELSE /\ Raise("CommandFailed", <<>>)
              /\ UNCHANGED <<last_result, idx>>
    /\ UNCHANGED <<probe, remote_name, git_dir, caller_args, args, is_force,
                   branch_args, git_args, last_forward>>

(***************************************************************************)
(* The default branch (lines 63-65) and _rewrite_args (lines 94-106).      *)
(***************************************************************************)
\* ['log', '-r', 'max(.::)', '-T', '{node}']
TopArgv == <<S_log, S_dash_r, S_max_tip, S_dash_T, S_node>>

\* variant: only the first HEAD is replaced
ReplaceFirstHead(a, top) ==
    [i \in 1..Len(a) |->
        IF a[i] = S_HEAD /\ ~\E j \in 1..(i - 1) : a[j] = S_HEAD THEN top ELSE a[i]]

\* the loop that sets args[index] = top wherever args[index] == 'HEAD'
ReplaceHead(a, top) == [i \in 1..Len(a) |-> IF a[i] = S_HEAD THEN top ELSE a[i]]

\* _rewrite_args works on the copy _args[:], so its argument is left as it was
ArgsAfterRewrite(a, rewritten) == a

\* git_args = self._rewrite_args(args)
RewriteArgs(r) ==
    /\ pc = "rewrite"
    /\ IF Contains(args, S_HEAD)
         THEN /\ calls' = Append(calls, Run(EDEN_CLI, TopArgv, r))
              /\ IF ~RunFails(r)
                   THEN /\ git_args' = ReplaceHead(args, r.out)
                        /\ args' = ArgsAfterRewrite(args, ReplaceHead(args, r.out))
                        /\ pc' = "forward"
                        /\ ret' = ret
                   ELSE /\ Raise("CommandFailed", <<>>)
                        /\ UNCHANGED <<git_args, args>>
         ELSE \* no subprocess is run: one step, whatever r
              /\ r = CHOOSE x \in RunResults : TRUE
              /\ calls' = calls
              /\ git_args' = args
              /\ args' = ArgsAfterRewrite(args, args)
              /\ pc' = "forward"
              /\ ret' = ret
    /\ UNCHANGED <<probe, remote_name, git_dir, caller_args, is_force, branch_args,
                   idx, last_result, last_forward>>

\* full_args = ["--git-dir", self.git_dir] + git_args
FullArgs(dir, ga) == <<S_git_dir, dir>> \o ga

\* return super().git(*full_args, **kwargs)
ForwardGit(r) ==
    /\ pc = "forward"
    /\ calls' = Append(calls, Run(GIT_CLI, FullArgs(git_dir, git_args), r))
    /\ IF RunFails(r) THEN Raise("CommandFailed", <<>>) ELSE Return(PyStr(r.out))
    /\ UNCHANGED <<probe, remote_name, git_dir, caller_args, args, is_force,
                   branch_args, idx, last_result, git_args, last_forward>>

Next ==
    \/ \E a \in InputArgs : GitCall(a)
    \/ GitCallAgain
    \/ CallerResumes
    \/ \E r \in RunResults : GetUrl(r)
    \/ \E r \in RunResults : FetchGetOrigin(r)
    \/ \E r \in RunResults : MergeBase(r)
    \/ \E r \in RunResults : PushPull(r)
    \/ \E r \in RunResults : PushPush(r)
    \/ \E r \in RunResults : RewriteArgs(r)
    \/ \E r \in RunResults : ForwardGit(r)

Spec == Init /\ [][Next]_vars

(***************************************************************************)
(* match_args on its own: any pattern of strings, wildcards and objects    *)
(* of another type against any argument list.                              *)
(***************************************************************************)
ProbeStrings == {<<"a">>, <<"b">>}
PatternElements == {Lit(s) : s \in ProbeStrings} \cup {WILDCARD_ARG, Other}
ProbePatterns == SeqsUpTo(PatternElements, MaxPattern)
ProbeArgs == SeqsUpTo(ProbeStrings, MaxPattern + 1)

InitMatch ==
    /\ InitShell
    /\ probe \in {[pattern |-> p, args |-> a, result |-> "unset"] :
                     p \in ProbePatterns, a \in ProbeArgs}

MatchArgsCall ==
    /\ probe.result = "unset"
    /\ probe' = [probe EXCEPT !.result = match_args(probe.pattern, probe.args)]
    /\ UNCHANGED <<remote_name, git_dir, pc, caller_args, args, is_force,
                   branch_args, idx, last_result, git_args, calls, ret,
                   last_forward>>

NextMatch == MatchArgsCall

SpecMatch == InitMatch /\ [][NextMatch]_vars

(***************************************************************************)
(* The properties.  They are stated on the history of the current call     *)
(* (calls), its arguments (caller_args) and its outcome (ret), in closed   *)
(* form: none of them uses match_args, Dispatch or the string operators    *)
(* of the model.                                                           *)
(***************************************************************************)
InCall == pc # "idle"
EdenRuns == RunsOf(calls, EDEN_CLI)
GitRuns == RunsOf(calls, GIT_CLI)
ShapeError == ret.status = "raised" /\ ret.exc = "Exception"

\* a begins with the tokens of p
BeginsWith(a, p) == Len(a) >= Len(p) /\ \A i \in 1..Len(p) : a[i] = p[i]

IsFetchRequest(a) == BeginsWith(a, <<S_fetch, S_prune, remote_name>>)
IsGetUrlRequest(a) == BeginsWith(a, <<S_remote, S_get_url, remote_name>>)
IsMergeBaseRequest(a) == Len(a) >= 3 /\ a[1] = S_merge_base /\ a[3] = S_HEAD
IsPushRequest(a) == BeginsWith(a, <<S_push, remote_name>>)
IsPassThrough(a) ==
    ~IsFetchRequest(a) /\ ~IsGetUrlRequest(a) /\ ~IsMergeBaseRequest(a)
        /\ ~IsPushRequest(a)

\* C1, as the specification states it: git("fetch", "--prune") fails with a
\* descriptive error and performs no subprocess call.
C1_FetchWithoutRemoteFails ==
    (pc = "done" /\ caller_args = <<S_fetch, S_prune>>)
        => (ShapeError /\ calls = <<>>)

\* C1, amended: git("fetch", "--prune") matches none of the special patterns.
\* It raises no argument-shape error and calls the backing tool never; it
\* forwards one generic command, --git-dir <handle> fetch --prune, whose
\* result or failure is the outcome of the call.
C1_FetchWithoutRemoteIsForwarded ==
    (InCall /\ caller_args = <<S_fetch, S_prune>>) =>
        /\ ~ShapeError
        /\ EdenRuns = <<>>
        /\ Len(calls) <= 1
        /\ pc = "done" =>
            /\ Len(calls) = 1
            /\ calls[1].tool = GIT_CLI
            /\ calls[1].argv = <<S_git_dir, git_dir, S_fetch, S_prune>>
            /\ IF calls[1].ok
                 THEN ret.status = "returned" /\ ret.val = PyStr(calls[1].out)
                 ELSE ret.status = "raised" /\ ret.exc = "CommandFailed"

C1_Witness ==
    /\ pc = "done"
    /\ caller_args = <<S_fetch, S_prune>>
    /\ ret.status = "returned"
    /\ Len(calls) = 1

\* C2: a fetch request of more than 3 arguments, and the push request of
\* exactly 2 arguments, raise an error that quotes the argument list, and
\* the call has issued no subprocess.
C2_ShapeViolationsFailAtOnce ==
    (InCall /\ \/ (IsFetchRequest(caller_args) /\ Len(caller_args) > 3)
               \/ caller_args = <<S_push, remote_name>>)
        => /\ pc = "done"
           /\ ShapeError
           /\ ret.about = caller_args
           /\ calls = <<>>

C2_Witness ==
    /\ pc = "done"
    /\ IsFetchRequest(caller_args)
    /\ Len(caller_args) = 4
    /\ ShapeError

\* C3: for fetch --prune <remote_name> the first subprocess is the backing
\* tool's config paths.default, the second and last is the generic command
\* --git-dir <handle> fetch --prune <url> +refs/heads/*:refs/remotes/origin/*
\* with <url> the answer of the first, and the call returns what it returns.
C3_FetchIsRewrittenAndForwarded ==
    (InCall /\ caller_args = <<S_fetch, S_prune, remote_name>>) =>
        /\ Len(calls) <= 2
        /\ Len(calls) >= 1 =>
            /\ calls[1].tool = EDEN_CLI
            /\ calls[1].argv = <<S_config, S_paths_default>>
        /\ Len(calls) = 2 =>
            /\ calls[1].ok
            /\ calls[2].tool = GIT_CLI
            /\ calls[2].argv = <<S_git_dir, git_dir, S_fetch, S_prune,
                                 calls[1].out, S_fetch_refspec>>
        /\ ret.status = "returned" =>
            /\ Len(calls) = 2
            /\ ret.val = PyStr(calls[2].out)

C3_Witness ==
    /\ pc = "done"
    /\ caller_args = <<S_fetch, S_prune, remote_name>>
    /\ ret.status = "returned"
    /\ Len(calls) = 2
    /\ calls[1].out # calls[2].out

(***************************************************************************)
(* A mapping string <hash>:<refspec>, read as the documentation reads it.  *)
(***************************************************************************)
HasColon(m) == \E i \in 1..Len(m) : m[i] = ":"
FirstColon(m) ==
    CHOOSE i \in 1..Len(m) : m[i] = ":" /\ \A j \in 1..(i - 1) : m[j] # ":"
HashOf(m) == SubSeq(m, 1, FirstColon(m) - 1)
AfterColon(m) == SubSeq(m, FirstColon(m) + 1, Len(m))
RefsHeads == <<"r","e","f","s","/","h","e","a","d","s","/">>
BranchOf(m) ==
    IF BeginsWith(AfterColon(m), RefsHeads)
        THEN SubSeq(AfterColon(m), Len(RefsHeads) + 1, Len(AfterColon(m)))
        ELSE AfterColon(m)

\* the mappings of a push request: what follows the remote name and the
\* --force that may come right after it
MappingsOf(a) ==
    IF a[3] = S_force THEN SubSeq(a, 4, Len(a)) ELSE SubSeq(a, 3, Len(a))

IsPush(c) == c.tool = EDEN_CLI /\ c.argv[1] = S_push
IsPull(c) == c.tool = EDEN_CLI /\ c.argv[1] = S_pull

\* C4: for a push request with mappings m1..mn the backing tool is called
\* with pull(h1), push(h1), ..., pull(hn), push(hn) in this order, each call
\* issued only after the one before it succeeded, and git() returns the
\* output of push(hn).
C4_PullThenPushInOrder ==
    (/\ InCall
     /\ IsPushRequest(caller_args)
     /\ Len(caller_args) >= 3
     /\ MappingsOf(caller_args) # <<>>
     /\ \A i \in 1..Len(MappingsOf(caller_args)) :
            HasColon(MappingsOf(caller_args)[i]))
    => LET ms == MappingsOf(caller_args)
           n == Len(ms)
       IN /\ Len(calls) <= 2 * n
          /\ \A k \in 1..Len(calls) :
                /\ calls[k].tool = EDEN_CLI
                /\ k < Len(calls) => calls[k].ok
                /\ IF k % 2 = 1
                     THEN calls[k].argv = <<S_pull, S_dash_r, HashOf(ms[(k + 1) \div 2])>>
                     ELSE /\ Len(calls[k].argv) >= 3
                          /\ calls[k].argv[1] = S_push
                          /\ calls[k].argv[2] = S_dash_r
                          /\ calls[k].argv[3] = HashOf(ms[k \div 2])
          /\ ret.status = "returned" =>
                /\ Len(calls) = 2 * n
                /\ ret.val = PyStr(calls[2 * n].out)

C4_Witness ==
    /\ pc = "done"
    /\ IsPushRequest(caller_args)
    /\ ret.status = "returned"
    /\ Len(calls) = 4
    /\ calls[2].out # calls[4].out
    /\ calls[1].argv[3] # calls[3].argv[3]

\* C5: in a push request a pull or push that fails is the last subprocess
\* of the call: it is not run again, nothing is run after it for this or a
\* later mapping, the calls that succeeded before it stand, and git() raises
\* the failure.
C5_FailureStopsThePush ==
    (InCall /\ IsPushRequest(caller_args)) =>
        \A k \in 1..Len(calls) :
            ~calls[k].ok =>
                /\ k = Len(calls)
                /\ pc = "done"
                /\ ret.status = "raised"
                /\ ret.exc = "CommandFailed"
                /\ \A j \in 1..(k - 1) : calls[j].ok

C5_Witness ==
    /\ pc = "done"
    /\ IsPushRequest(caller_args)
    /\ Len(caller_args) >= 3
    /\ Len(MappingsOf(caller_args)) = 2
    /\ Len(calls) = 3
    /\ IsPush(calls[2]) /\ calls[2].ok
    /\ IsPull(calls[3]) /\ ~calls[3].ok
    /\ ret.status = "raised"

\* C6: every push the backing tool is asked for is
\* push -r <hash> --to <branch> --force, with <hash> the text before the
\* first ':' of its mapping and <branch> the text after it without a leading
\* refs/heads/; --force is there whether or not the request had it; a
\* --force right after the remote name is no mapping, so that
\* push <remote> --force h1:refs/heads/b1 makes one push, of h1 to b1.
C6_PushesAreForcedAndWellFormed ==
    (InCall /\ IsPushRequest(caller_args) /\ Len(caller_args) >= 3) =>
        LET ms == MappingsOf(caller_args)
            pushes == SelectSeq(calls, IsPush)
        IN /\ \A k \in 1..Len(calls) :
                IsPush(calls[k]) =>
                    /\ k % 2 = 0
                    /\ k \div 2 <= Len(ms)
                    /\ HasColon(ms[k \div 2])
                    /\ calls[k].argv =
                        <<S_push, S_dash_r, HashOf(ms[k \div 2]), S_to,
                          BranchOf(ms[k \div 2]), S_force>>
           /\ ret.status = "returned" => Len(pushes) = Len(ms)
           /\ (/\ ret.status = "returned"
               /\ caller_args = <<S_push, remote_name, S_force,
                                  <<"h","1",":">> \o RefsHeads \o <<"b","1">> >>)
              => /\ Len(pushes) = 1
                 /\ pushes[1].argv = <<S_push, S_dash_r, <<"h","1">>, S_to,
                                       <<"b","1">>, S_force>>

C6_Witness ==
    /\ pc = "done"
    /\ IsPushRequest(caller_args)
    /\ ret.status = "returned"
    /\ Len(caller_args) >= 3
    /\ caller_args[3] # S_force
    /\ Len(MappingsOf(caller_args)) = 2
    /\ BranchOf(MappingsOf(caller_args)[1]) # AfterColon(MappingsOf(caller_args)[1])
    /\ BranchOf(MappingsOf(caller_args)[2]) = AfterColon(MappingsOf(caller_args)[2])
    /\ Len(SelectSeq(calls, IsPush)) = 2

(***************************************************************************)
(* The pass-through and the merge-base request.                            *)
(***************************************************************************)
HasHead(a) == \E i \in 1..Len(a) : a[i] = S_HEAD

\* C7: an argument list that matches none of the four patterns is forwarded
\* once, as --git-dir <handle> followed by the list with every HEAD replaced
\* by one and the same tip identifier and every other token in its place;
\* the tip is asked of the backing tool once when the list holds a HEAD and
\* never otherwise; a list without HEAD translated twice is forwarded as
\* the same list both times; the argument list of the caller stays as it is.
C7_PassThroughRewritesHeadOnly ==
    (InCall /\ IsPassThrough(caller_args)) =>
        /\ args = caller_args
        /\ Len(GitRuns) <= 1
        /\ Len(EdenRuns) <= (IF HasHead(caller_args) THEN 1 ELSE 0)
        /\ \A k \in 1..Len(EdenRuns) :
              EdenRuns[k].argv = <<S_log, S_dash_r, S_max_tip, S_dash_T, S_node>>
        /\ GitRuns # <<>> =>
              /\ calls[Len(calls)] = GitRuns[1]
              /\ Len(EdenRuns) = (IF HasHead(caller_args) THEN 1 ELSE 0)
              /\ Len(GitRuns[1].argv) = Len(caller_args) + 2
              /\ GitRuns[1].argv[1] = S_git_dir
              /\ GitRuns[1].argv[2] = git_dir
              /\ \A i \in 1..Len(caller_args) :
                    GitRuns[1].argv[i + 2] =
                        IF caller_args[i] = S_HEAD THEN EdenRuns[1].out
                        ELSE caller_args[i]
              /\ (last_forward.set /\ ~HasHead(caller_args))
                    => GitRuns[1].argv = last_forward.argv
        /\ ret.status = "returned" =>
              /\ Len(GitRuns) = 1
              /\ ret.val = PyStr(GitRuns[1].out)

C7_Witness ==
    /\ pc = "done"
    /\ IsPassThrough(caller_args)
    /\ ret.status = "returned"
    /\ last_forward.set
    /\ \E i, j \in 1..Len(caller_args) :
          i # j /\ caller_args[i] = S_HEAD /\ caller_args[j] = S_HEAD

\* the text of ref after its last '/', the whole of ref when it has none
AfterLastSlash(ref) ==
    IF \E i \in 1..Len(ref) : ref[i] = "/"
        THEN LET i == CHOOSE i \in 1..Len(ref) :
                        ref[i] = "/" /\ \A j \in (i + 1)..Len(ref) : ref[j] # "/"
             IN SubSeq(ref, i + 1, Len(ref))
        ELSE ref

\* C8: merge-base <ref> HEAD asks the backing tool once, for
\* log -T {node} -r "ancestor(., <branch>)" with <branch> the text of <ref>
\* after its last '/', returns the answer, forwards nothing to the generic
\* runner and does not ask for the tip.
C8_MergeBaseAsksForTheAncestor ==
    (InCall /\ Len(caller_args) = 3 /\ IsMergeBaseRequest(caller_args)) =>
        /\ Len(calls) <= 1
        /\ GitRuns = <<>>
        /\ \A k \in 1..Len(calls) :
              calls[k].argv =
                  <<S_log, S_dash_T, S_node, S_dash_r,
                    <<"a","n","c","e","s","t","o","r","(",".",","," ">>
                        \o AfterLastSlash(caller_args[2]) \o <<")">> >>
        /\ pc = "done" => Len(calls) = 1
        /\ ret.status = "returned" => ret.val = PyStr(calls[1].out)

C8_Witness ==
    /\ pc = "done"
    /\ Len(caller_args) = 3
    /\ IsMergeBaseRequest(caller_args)
    /\ ret.status = "returned"
    /\ \E i, j \in 1..Len(caller_args[2]) :
          i < j /\ caller_args[2][i] = "/" /\ caller_args[2][j] = "/"
                /\ j < Len(caller_args[2])

\* C9: for a pattern of strings and wildcards, match_args(P, A) is true
\* exactly when A is at least as long as P and every string of P equals the
\* element of A at its position; so it is false when P is longer than A,
\* and what A holds beyond the length of P does not count.
C9_MatchArgsIsPrefixMatch ==
    (/\ probe.result # "unset"
     /\ \A i \in 1..Len(probe.pattern) : probe.pattern[i].kind # "other")
    => /\ probe.result \in {"True", "False"}
       /\ probe.result = "True" <=>
            /\ Len(probe.args) >= Len(probe.pattern)
            /\ \A i \in 1..Len(probe.pattern) :
                  \/ probe.pattern[i].kind = "wildcard"
                  \/ probe.pattern[i].val = probe.args[i]

C9_Witness ==
    /\ probe.result = "True"
    /\ Len(probe.args) > Len(probe.pattern)
    /\ \E i, j \in 1..Len(probe.pattern) :
          probe.pattern[i].kind = "wildcard" /\ probe.pattern[j].kind = "str"

\* C10: push <remote_name> --force, a push request with no mapping, does
\* not fail: it runs no subprocess and returns None.
C10_PushWithoutMappingIsANoOp ==
    (InCall /\ caller_args = <<S_push, remote_name, S_force>>) =>
        /\ pc = "done"
        /\ ret = Returned(PyNone)
        /\ calls = <<>>

C10_Witness ==
    /\ pc = "done"
    /\ caller_args = <<S_push, remote_name, S_force>>
    /\ ret.status = "returned"

====
